---- MODULE Spec2Model ----
(***************************************************************************)
(* Model of selfdrive/controls/lib/vehicle_model.py: the VehicleModel      *)
(* parameter store, the steady-state solver, the curvature / yaw-rate API  *)
(* and the segmented 3-DoF curvature estimator.                            *)
(*                                                                         *)
(* Numbers are exact rationals <<n, d>> with d > 0 in lowest terms.  The   *)
(* values a float computation produces when it leaves the rationals are   *)
(* kept as well: <<1, 0>> is +inf, <<-1, 0>> is -inf, <<0, 0>> is NaN     *)
(* (numpy's results for a zero divisor) and <<2, 0>> stands for an        *)
(* exception that unwinds the call (ZeroDivisionError of a Python float   *)
(* division, ValueError of numpy.gradient, LinAlgError of numpy.solve).   *)
(* Rounding of IEEE doubles is not modelled: arithmetic is exact.         *)
(***************************************************************************)
EXTENDS Integers, Sequences, FiniteSets, TLC

VARIABLES CP, VM, last, op, args, ret, locals, upd, qry, committed

vars == <<CP, VM, last, op, args, ret, locals, upd, qry, committed>>

----------------------------------------------------------------------------
(* Exact arithmetic with the non-finite values of float arithmetic.        *)

RECURSIVE GCD(_, _)
GCD(a, b) == IF b = 0 THEN a ELSE GCD(b, a % b)

AbsI(n) == IF n < 0 THEN -n ELSE n

SgnI(n) == IF n < 0 THEN -1 ELSE IF n > 0 THEN 1 ELSE 0

Norm(n, d) ==
  IF d = 1 THEN <<n, 1>>
  ELSE LET g == GCD(AbsI(n), AbsI(d))
           s == IF d < 0 THEN -1 ELSE 1
       IN  <<(s * n) \div g, (s * d) \div g>>

R(n) == <<n, 1>>
Q(n, d) == Norm(n, d)

Inf == <<1, 0>>
NegInf == <<-1, 0>>
NaN == <<0, 0>>
Raised == <<2, 0>>

IsFinite(a) == a[2] # 0
IsRaised(a) == a = Raised
IsNaN(a) == a = NaN
IsZero(a) == a[2] # 0 /\ a[1] = 0
Sgn(a) == SgnI(a[1])

Neg(a) == IF a[2] = 0 /\ IsRaised(a) THEN a ELSE <<-a[1], a[2]>>

Abs(a) == IF a[2] = 0 /\ IsRaised(a) THEN a ELSE <<AbsI(a[1]), a[2]>>

Add(a, b) ==
  IF a[2] # 0 /\ b[2] # 0
  THEN IF a[2] = b[2] THEN Norm(a[1] + b[1], a[2])
       ELSE LET g == GCD(a[2], b[2])
            IN  Norm(a[1] * (b[2] \div g) + b[1] * (a[2] \div g), a[2] * (b[2] \div g))
  ELSE IF IsRaised(a) \/ IsRaised(b) THEN Raised
  ELSE IF IsNaN(a) \/ IsNaN(b) THEN NaN
  ELSE IF ~IsFinite(a) THEN (IF ~IsFinite(b) /\ b # a THEN NaN ELSE a)
  ELSE b

Sub(a, b) == Add(a, Neg(b))

Mul(a, b) ==
  IF a[2] # 0 /\ b[2] # 0
  THEN IF a[1] = 0 \/ b[1] = 0 THEN <<0, 1>>
       ELSE IF a[2] = 1 /\ b[2] = 1 THEN <<a[1] * b[1], 1>>
       ELSE LET g1 == GCD(AbsI(a[1]), b[2])
                g2 == GCD(AbsI(b[1]), a[2])
            IN  <<(a[1] \div g1) * (b[1] \div g2), (a[2] \div g2) * (b[2] \div g1)>>
  ELSE IF IsRaised(a) \/ IsRaised(b) THEN Raised
  ELSE IF IsNaN(a) \/ IsNaN(b) THEN NaN
  ELSE IF IsZero(a) \/ IsZero(b) THEN NaN
  ELSE <<Sgn(a) * Sgn(b), 0>>

\* numpy float64 division: a zero divisor gives inf or nan (with a warning)
Div(a, b) ==
  IF a[2] # 0 /\ b[2] # 0 /\ b[1] # 0
  THEN Mul(a, IF b[1] < 0 THEN <<-b[2], -b[1]>> ELSE <<b[2], b[1]>>)
  ELSE IF IsRaised(a) \/ IsRaised(b) THEN Raised
  ELSE IF IsNaN(a) \/ IsNaN(b) THEN NaN
  ELSE IF ~IsFinite(b) THEN (IF ~IsFinite(a) THEN NaN ELSE R(0))
  ELSE IF ~IsFinite(a) THEN (IF IsZero(b) THEN a ELSE <<Sgn(a) * Sgn(b), 0>>)
  ELSE IF IsZero(a) THEN NaN ELSE <<Sgn(a), 0>>

\* Python float division: a zero divisor raises ZeroDivisionError
PyDiv(a, b) == IF IsZero(b) /\ ~IsRaised(a) THEN Raised ELSE Div(a, b)

\* a < b and a > b as float comparisons: false when either side is NaN
Lt(a, b) ==
  IF a[2] # 0 /\ b[2] # 0 THEN a[1] * b[2] < b[1] * a[2]
  ELSE IF IsNaN(a) \/ IsNaN(b) \/ IsRaised(a) \/ IsRaised(b) THEN FALSE
  ELSE IF ~IsFinite(a) THEN a = NegInf /\ b # NegInf
  ELSE b = Inf

Gt(a, b) == Lt(b, a)

Ge(a, b) == Gt(a, b) \/ (a = b /\ ~IsNaN(a) /\ ~IsRaised(a))

Sq(a) == Mul(a, a)

\* x ** (3/2) for x >= 0 whose square root is rational
ISqrt(n) == CHOOSE r \in 0..n : r * r = n
Pow32(a) ==
  IF ~IsFinite(a) THEN a
  ELSE LET s == <<ISqrt(a[1]), ISqrt(a[2])>> IN Mul(a, s)

\* the same sequence with every element evaluated once
Eval(s) == s \o <<>>

\* F applied to a value that is computed once
Let(v, F(_)) == F(v)

RECURSIVE SumSeq(_)
SumSeq(s) == IF s = <<>> THEN R(0) ELSE Add(Head(s), SumSeq(Tail(s)))

----------------------------------------------------------------------------
(* Module constants.                                                       *)

ACCELERATION_DUE_TO_GRAVITY == Q(49, 5)
SEGMENT_LENGTH_3DOF == 5
CURVATURE_CORR_ALPHA_3DOF == Q(1, 2)
\* the literal 0.1 of steady_state_sol and calc_curvature_3dof
SpeedThreshold == Q(1, 10)
\* the literal 1e-6 of roll_compensation
SlipEpsilon == Q(1, 1000000)

----------------------------------------------------------------------------
(* The parameter store.                                                    *)

\* update_params with the rear stiffness scaled from the front baseline
update_params_front_only(self, stiffness_factor, steer_ratio) ==
  [self EXCEPT !.cF = Mul(stiffness_factor, self.cF_orig),
               !.cR = Mul(stiffness_factor, self.cF_orig),
               !.sR = steer_ratio]

update_params(self, stiffness_factor, steer_ratio) ==
  [self EXCEPT !.cF = Mul(stiffness_factor, self.cF_orig),
               !.cR = Mul(stiffness_factor, self.cR_orig),
               !.sR = steer_ratio]

\* VehicleModel.__init__: every field is set, the last three by update_params
construct(cp) ==
  update_params(
    [m |-> cp.mass, j |-> cp.rotationalInertia, l |-> cp.wheelbase,
     aF |-> cp.centerToFront, aR |-> Sub(cp.wheelbase, cp.centerToFront),
     chi |-> cp.steerRatioRear,
     cF_orig |-> cp.tireStiffnessFront, cR_orig |-> cp.tireStiffnessRear,
     cF |-> NaN, cR |-> NaN, sR |-> NaN],
    R(1), cp.steerRatio)

----------------------------------------------------------------------------
(* Curvature / yaw-rate API (Python float arithmetic).                     *)

\* the slip factor from the values its four reads of cF and cR return, in the
\* order of the expression: cF, cR, cF, cR
slip_factor_of(self, cF1, cR1, cF2, cR2) ==
  PyDiv(Mul(self.m, Sub(Mul(cF1, self.aF), Mul(cR1, self.aR))),
        Mul(Mul(Sq(self.l), cF2), cR2))

calc_slip_factor(self) == slip_factor_of(self, self.cF, self.cR, self.cF, self.cR)

\* curvature_factor and roll_compensation after their call to calc_slip_factor
curvature_factor_of(self, sf, u) ==
  PyDiv(PyDiv(Sub(R(1), self.chi), Sub(R(1), Mul(sf, Sq(u)))), self.l)

roll_compensation_of(sf, roll, u) ==
  IF IsRaised(sf) THEN Raised
  ELSE IF Lt(Abs(sf), SlipEpsilon) THEN R(0)
  ELSE PyDiv(Mul(ACCELERATION_DUE_TO_GRAVITY, roll),
             Sub(PyDiv(R(1), sf), Sq(u)))

curvature_factor(self, u) == curvature_factor_of(self, calc_slip_factor(self), u)

roll_compensation(self, roll, u) == roll_compensation_of(calc_slip_factor(self), roll, u)

calc_curvature(self, sa, u, roll) ==
  Add(PyDiv(Mul(curvature_factor(self, u), sa), self.sR),
      roll_compensation(self, roll, u))

\* get_steer_from_curvature with the roll compensation added, not subtracted
get_steer_from_curvature_roll_added(self, curv, u, roll) ==
  PyDiv(Mul(Mul(Add(curv, roll_compensation(self, roll, u)), self.sR), R(1)),
        curvature_factor(self, u))

get_steer_from_curvature(self, curv, u, roll) ==
  PyDiv(Mul(Mul(Sub(curv, roll_compensation(self, roll, u)), self.sR), R(1)),
        curvature_factor(self, u))

get_steer_from_yaw_rate(self, yaw_rate, u, roll) ==
  LET curv == PyDiv(yaw_rate, u)
  IN  get_steer_from_curvature(self, curv, u, roll)

yaw_rate(self, sa, u, roll) == Mul(calc_curvature(self, sa, u, roll), u)

----------------------------------------------------------------------------
(* Steady-state solver.                                                    *)

\* a 2x1 result, or the exception that one of its entries raised; results are
\* sequences of numbers: <<v, r>>, <<Raised>>
Vec2(a, b) == IF IsRaised(a) \/ IsRaised(b) THEN <<Raised>> ELSE <<a, b>>

kin_ss_sol(sa, u, self) ==
  LET K00 == Mul(PyDiv(PyDiv(self.aR, self.sR), self.l), u)
      K10 == Mul(PyDiv(PyDiv(R(1), self.sR), self.l), u)
  IN  Vec2(Mul(K00, sa), Mul(K10, sa))

\* A and B as <<row 0, row 1>>
create_dyn_state_matrices(u, self) ==
  LET d == Sub(Mul(self.cF, self.aF), Mul(self.cR, self.aR))
      A00 == Neg(PyDiv(Add(self.cF, self.cR), Mul(self.m, u)))
      A01 == Sub(Neg(PyDiv(d, Mul(self.m, u))), u)
      A10 == Neg(PyDiv(d, Mul(self.j, u)))
      A11 == Neg(PyDiv(Add(Mul(self.cF, Sq(self.aF)), Mul(self.cR, Sq(self.aR))),
                       Mul(self.j, u)))
      B00 == PyDiv(PyDiv(Add(self.cF, Mul(self.chi, self.cR)), self.m), self.sR)
      B10 == PyDiv(PyDiv(Sub(Mul(self.cF, self.aF),
                             Mul(Mul(self.chi, self.cR), self.aR)), self.j), self.sR)
      B01 == Neg(ACCELERATION_DUE_TO_GRAVITY)
  IN  [A |-> <<<<A00, A01>>, <<A10, A11>>>>, B |-> <<<<B00, B01>>, <<B10, R(0)>>>>]

AnyRaised(M) == \E i \in DOMAIN M : \E k \in DOMAIN M[i] : IsRaised(M[i][k])

\* -solve(A, B) @ [[sa], [roll]]: the 2x2 system solved exactly; a singular A
\* makes numpy.linalg.solve raise LinAlgError
neg_solve_apply(A, B, sa, roll) ==
  Let(Sub(Mul(A[1][1], A[2][2]), Mul(A[1][2], A[2][1])), LAMBDA det :
    IF AnyRaised(A) \/ AnyRaised(B) \/ IsZero(det) THEN <<Raised>>
    ELSE LET X11 == Div(Sub(Mul(A[2][2], B[1][1]), Mul(A[1][2], B[2][1])), det)
             X12 == Div(Sub(Mul(A[2][2], B[1][2]), Mul(A[1][2], B[2][2])), det)
             X21 == Div(Sub(Mul(A[1][1], B[2][1]), Mul(A[2][1], B[1][1])), det)
             X22 == Div(Sub(Mul(A[1][1], B[2][2]), Mul(A[2][1], B[1][2])), det)
         IN  Vec2(Add(Mul(Neg(X11), sa), Mul(Neg(X12), roll)),
                  Add(Mul(Neg(X21), sa), Mul(Neg(X22), roll))))

dyn_ss_sol(sa, u, roll, self) ==
  Let(create_dyn_state_matrices(u, self), LAMBDA AB :
    neg_solve_apply(AB.A, AB.B, sa, roll))

\* steady_state_sol with the threshold test u >= 0.1
steady_state_sol_inclusive(self, sa, u, roll) ==
  IF Ge(u, SpeedThreshold)
  THEN [ret |-> dyn_ss_sol(sa, u, roll, self),
        path |-> <<"dyn_ss_sol", "create_dyn_state_matrices">>,
        builder_u |-> <<u>>]
  ELSE [ret |-> kin_ss_sol(sa, u, self),
        path |-> <<"kin_ss_sol">>,
        builder_u |-> <<>>]

\* the result of the call, with the functions it went through and the speeds
\* it passed to create_dyn_state_matrices
steady_state_sol(self, sa, u, roll) ==
  IF Gt(u, SpeedThreshold)
  THEN [ret |-> dyn_ss_sol(sa, u, roll, self),
        path |-> <<"dyn_ss_sol", "create_dyn_state_matrices">>,
        builder_u |-> <<u>>]
  ELSE [ret |-> kin_ss_sol(sa, u, self),
        path |-> <<"kin_ss_sol">>,
        builder_u |-> <<>>]

----------------------------------------------------------------------------
(* The 3-DoF estimator (numpy float64 arithmetic on the segments).         *)

\* Python's range(start, stop, step) for step > 0, as a sequence
Range(start, stop, step) ==
  LET cnt == IF stop > start THEN (stop - start + step - 1) \div step ELSE 0
  IN  Eval([k \in 1..cnt |-> start + (k - 1) * step])

Min(a, b) == IF a < b THEN a ELSE b

\* s[i:j] of a Python list, i and j 0-based and non-negative
Slice(s, i, j) == SubSeq(s, i + 1, Min(j, Len(s)))

\* numpy.diff(t)
diff(t) == Eval([i \in 1..(Len(t) - 1) |-> Sub(t[i + 1], t[i])])

\* numpy.gradient(f, t) with edge_order 1: one-sided differences at the two
\* ends, second-order central differences inside; evenly spaced coordinates
\* take the scalar-spacing formula
gradient(f, t) ==
  Let(diff(t), LAMBDA h :
  Let(\A i \in 1..(Len(f) - 1) : h[i] = h[1], LAMBDA uniform :
    LET n == Len(f)
        inner(i) ==
          IF uniform
          THEN Div(Sub(f[i + 1], f[i - 1]), Mul(R(2), h[1]))
          ELSE LET dx1 == h[i - 1]
                   dx2 == h[i]
                   a == Neg(Div(dx2, Mul(dx1, Add(dx1, dx2))))
                   b == Div(Sub(dx2, dx1), Mul(dx1, dx2))
                   c == Div(dx1, Mul(dx2, Add(dx1, dx2)))
               IN  Add(Add(Mul(a, f[i - 1]), Mul(b, f[i])), Mul(c, f[i + 1]))
    IN  Eval([i \in 1..n |->
          IF i = 1 THEN Div(Sub(f[2], f[1]), h[1])
          ELSE IF i = n THEN Div(Sub(f[n], f[n - 1]), h[n - 1])
          ELSE inner(i)])))

\* numpy.nanmean: the mean of the entries that are not NaN, NaN if there is none
nanmean(s) ==
  Let(SelectSeq(s, LAMBDA a : ~IsNaN(a)), LAMBDA keep :
    IF keep = <<>> THEN NaN ELSE Div(SumSeq(keep), R(Len(keep))))

\* the 3-state builder with the longitudinal acceleration entering the yaw row
create_dyn_state_matrices_3dof_yaw_input(u, v, yaw_rate_, self) ==
  LET d == Sub(Mul(self.cF, self.aF), Mul(self.cR, self.aR))
      A11 == Neg(Div(Add(self.cF, self.cR), Mul(self.m, u)))
      A12 == Sub(Neg(u), Div(d, Mul(self.m, u)))
      A21 == Neg(Div(d, Mul(self.j, u)))
      A22 == Neg(Div(Add(Mul(self.cF, Sq(self.aF)), Mul(self.cR, Sq(self.aR))),
                     Mul(self.j, u)))
      B10 == PyDiv(self.cF, Mul(self.m, self.sR))
      B20 == PyDiv(Mul(self.cF, self.aF), Mul(self.j, self.sR))
  IN  [A |-> <<<<R(0), R(0), R(0)>>, <<R(0), A11, A12>>, <<R(0), A21, A22>>>>,
       B |-> <<<<R(0), R(0)>>, <<B10, R(0)>>, <<B20, R(1)>>>>]

\* A (3x3) and B (3x2) as sequences of rows.  u is a numpy float64 when it
\* comes from dx[0], so a zero u gives inf / nan entries (when u is a Python
\* float it is above 0.1); the divisions that involve only fields of the model
\* are Python float divisions.
create_dyn_state_matrices_3dof(u, v, yaw_rate_, self) ==
  LET d == Sub(Mul(self.cF, self.aF), Mul(self.cR, self.aR))
      A11 == Neg(Div(Add(self.cF, self.cR), Mul(self.m, u)))
      A12 == Sub(Neg(u), Div(d, Mul(self.m, u)))
      A21 == Neg(Div(d, Mul(self.j, u)))
      A22 == Neg(Div(Add(Mul(self.cF, Sq(self.aF)), Mul(self.cR, Sq(self.aR))),
                     Mul(self.j, u)))
      B10 == PyDiv(self.cF, Mul(self.m, self.sR))
      B20 == PyDiv(Mul(self.cF, self.aF), Mul(self.j, self.sR))
  IN  [A |-> <<<<R(0), R(0), R(0)>>, <<R(0), A11, A12>>, <<R(0), A21, A22>>>>,
       B |-> <<<<R(0), R(1)>>, <<B10, R(0)>>, <<B20, R(0)>>>>]

\* row @ vector
Dot(row, vec) == SumSeq(Eval([k \in 1..Len(row) |-> Mul(row[k], vec[k])]))

\* state + (A @ state + B @ input_vector) * delta_t
euler_step(A, B, state, input_vector, delta_t) ==
  Eval([r \in 1..3 |->
          Add(state[r],
              Mul(Add(Dot(A[r], state), Dot(B[r], input_vector)), delta_t))])

\* what one iteration of the segment loop leaves behind
SegmentRaised(i, builder_u) ==
  [raised |-> TRUE, start |-> i, builder_u |-> builder_u, cb |-> Raised, c3d |-> Raised]

\* One iteration of the segment loop, for the segment starting at index i
\* (0-based): its baseline curvature, its 3-DoF curvature and the speed it
\* passes to the builder; raised when numpy.gradient or the builder raises.
segment_step(self, x, y, times, i, a_y, a_x, yaw_rate_, u_measured, sa) ==
  LET end_idx == i + SEGMENT_LENGTH_3DOF
      x_segment == Slice(x, i, end_idx)
      y_segment == Slice(y, i, end_idx)
      t_segment == Slice(times, i, end_idx)
      n == Len(t_segment)
  IN  IF Len(x_segment) # n \/ Len(y_segment) # n \/ n < 2
      THEN SegmentRaised(i, <<>>)
      ELSE
        Let(gradient(x_segment, t_segment), LAMBDA dx :
        Let(gradient(y_segment, t_segment), LAMBDA dy :
        Let(gradient(dx, t_segment), LAMBDA ddx :
        Let(gradient(dy, t_segment), LAMBDA ddy :
        Let(nanmean(Eval([k \in 1..n |->
                       Div(Abs(Sub(Mul(ddx[k], dy[k]), Mul(ddy[k], dx[k]))),
                           Pow32(Add(Sq(dx[k]), Sq(dy[k]))))])),
            LAMBDA curvature_baseline :
        Let(IF Gt(u_measured, SpeedThreshold) THEN u_measured ELSE dx[1], LAMBDA u :
        Let(IF Gt(u, SpeedThreshold) THEN Div(a_y, u) ELSE R(0), LAMBDA v :
        Let(create_dyn_state_matrices_3dof(u, v, yaw_rate_, self), LAMBDA AB :
          IF AnyRaised(AB.B) THEN SegmentRaised(i, <<u>>)
          ELSE
            Let(euler_step(AB.A, AB.B, <<u, v, yaw_rate_>>, <<sa, a_x>>,
                           Sub(t_segment[n], t_segment[1])),
                LAMBDA state :
              [raised |-> FALSE, start |-> i, builder_u |-> <<u>>,
               cb |-> curvature_baseline,
               c3d |-> IF Gt(state[1], SpeedThreshold)
                       THEN Div(state[3], state[1]) ELSE R(0)])))))))))

\* the segment loop: the iterations in order, up to and including the first
\* that raises
RECURSIVE run_segments(_, _, _, _, _, _, _, _, _, _)
run_segments(self, x, y, times, starts, a_y, a_x, yaw_rate_, u_measured, sa) ==
  IF starts = <<>> THEN <<>>
  ELSE Let(segment_step(self, x, y, times, Head(starts),
                        a_y, a_x, yaw_rate_, u_measured, sa),
           LAMBDA s :
             IF s.raised THEN <<s>>
             ELSE <<s>> \o run_segments(self, x, y, times, Tail(starts),
                                        a_y, a_x, yaw_rate_, u_measured, sa))

\* the correction loop
combine(done) ==
  Eval([k \in 1..Len(done) |->
          Add(done[k].cb,
              Mul(CURVATURE_CORR_ALPHA_3DOF, Sub(done[k].cb, done[k].c3d)))])

\* the time-window loop leaving only once total_time is above time_horizon
RECURSIVE window_strict(_, _, _, _, _)
window_strict(combined, times, time_horizon, i, total_time) ==
  IF i > Len(combined) THEN <<>>
  ELSE IF Gt(total_time, time_horizon) THEN <<>>
  ELSE IF i - 1 < Len(times) - 1
       THEN <<combined[i]>> \o
            window_strict(combined, times, time_horizon, i + 1,
                          Add(total_time, Sub(times[i + 1], times[i])))
       ELSE window_strict(combined, times, time_horizon, i + 1, total_time)

\* the time-window loop: relevant_curvatures after visiting combined[i..] with
\* total_time accumulated so far (i is 1-based)
RECURSIVE window(_, _, _, _, _)
window(combined, times, time_horizon, i, total_time) ==
  IF i > Len(combined) THEN <<>>
  ELSE IF Ge(total_time, time_horizon) THEN <<>>
  ELSE IF i - 1 < Len(times) - 1
       THEN <<combined[i]>> \o
            window(combined, times, time_horizon, i + 1,
                   Add(total_time, Sub(times[i + 1], times[i])))
       ELSE window(combined, times, time_horizon, i + 1, total_time)

\* the guard testing the length of x alone
too_short_x_only(positions_x, positions_y) ==
  Len(positions_x) < SEGMENT_LENGTH_3DOF

\* the guard before the segment loop
too_short(positions_x, positions_y) ==
  Len(positions_x) < SEGMENT_LENGTH_3DOF \/ Len(positions_y) < SEGMENT_LENGTH_3DOF

\* model is modelV2.position: [x, y, t].  The result of the call together with
\* the lists it built, the segment starts it visited and the speeds it passed
\* to the 3-state builder.
calc_curvature_3dof(self, model, a_y, a_x, yaw_rate_, u_measured, sa, time_horizon) ==
  LET positions_x == model.x
      positions_y == model.y
      times == model.t
  IN  IF too_short(positions_x, positions_y)
      THEN [ret |-> R(0), segments |-> <<>>, builder_u |-> <<>>,
            combined |-> <<>>, relevant |-> <<>>]
      ELSE
        Let(run_segments(self, positions_x, positions_y, times,
                         Range(0, Len(positions_x) - SEGMENT_LENGTH_3DOF,
                               SEGMENT_LENGTH_3DOF),
                         a_y, a_x, yaw_rate_, u_measured, sa),
            LAMBDA done :
        Let(Eval([k \in 1..Len(done) |-> done[k].start]), LAMBDA segments :
        Let(Eval([k \in 1..Len(SelectSeq(done, LAMBDA s : s.builder_u # <<>>)) |->
                    done[k].builder_u[1]]),
            LAMBDA builder_u :
          IF done # <<>> /\ done[Len(done)].raised
          THEN [ret |-> Raised, segments |-> segments, builder_u |-> builder_u,
                combined |-> <<>>, relevant |-> <<>>]
          ELSE
            Let(combine(done), LAMBDA combined :
            Let(window(combined, times, time_horizon, 1, R(0)), LAMBDA relevant :
              [ret |-> IF relevant # <<>>
                       THEN Div(SumSeq(relevant), R(Len(relevant))) ELSE R(0),
               segments |-> segments, builder_u |-> builder_u,
               combined |-> combined, relevant |-> relevant])))))

-----
(* Inputs.                                                                 *)

\* the longest trajectory, in samples
MaxSamples == 11

CarParams(mass, inertia, wheelbase, centerToFront, rear, front_stiff, rear_stiff, ratio) ==
  [mass |-> mass, rotationalInertia |-> inertia, wheelbase |-> wheelbase,
   centerToFront |-> centerToFront, steerRatioRear |-> rear,
   tireStiffnessFront |-> front_stiff, tireStiffnessRear |-> rear_stiff,
   steerRatio |-> ratio]

\* neutral steer (slip factor 0); oversteer with critical speed 2 (slip factor
\* 1/4); understeer with rear steering (slip factor -2/9); a nearly balanced
\* car with a slip factor of 5e-7, below the 1e-6 of roll_compensation, and of
\* exactly 1e-6 once the stiffness is halved
CarParamsSet ==
  { CarParams(R(2), R(3), R(2), R(1), R(0), R(1), R(1), R(2)),
    CarParams(R(2), R(3), R(2), R(1), R(0), R(2), R(1), R(2)),
    CarParams(R(2), R(3), R(3), R(1), Q(1, 2), R(1), R(1), R(2)),
    CarParams(Q(1, 4), R(500002), R(1000), R(501), R(0), R(1), R(1), R(2)) }

StiffnessFactorSet == {Q(1, 2), R(2)}
SteerRatioSet == {R(3), R(0)}

SteerSet == {R(0), Q(1, 10)}
\* speeds for the steady-state solver, around its 0.1 threshold, and for the
\* curvature API, with the critical speed 2 of the oversteering car
SteadySpeedSet == {R(0), Q(1, 10), R(1), R(2)}
SpeedSet == {R(0), R(2), R(3)}
RollSet == {R(0), Q(1, 20)}
CurvSet == {R(0), Q(1, 100)}
YawRateSet == {Q(1, 10)}

\* sample k (1-based) of each kind of path; times are k - 1 except for "uneven"
PathX(kind, k) ==
  CASE kind = "straight" -> R(3 * (k - 1))
    [] kind = "uneven" -> R(3 * ((k - 1) + ((k - 1) \div 3)))
    [] kind = "stationary" -> R(0)
    [] kind = "creep" -> Q(k - 1, 20)
    [] kind = "turn" -> R(6 * ((k - 1) \div 5) + 3 * Min(((k - 1) % 5), 2))

PathY(kind, k) ==
  CASE kind = "turn" -> R(8 * ((k - 1) \div 5) +
                          4 * (IF ((k - 1) % 5) > 2 THEN ((k - 1) % 5) - 2 ELSE 0))
    [] OTHER -> R(1)

PathT(kind, k) ==
  CASE kind = "uneven" -> R((k - 1) + ((k - 1) \div 3))
    [] OTHER -> R(k - 1)

Path(kind, nx, ny, nt) ==
  [x |-> Eval([k \in 1..nx |-> PathX(kind, k)]),
   y |-> Eval([k \in 1..ny |-> PathY(kind, k)]),
   t |-> Eval([k \in 1..nt |-> PathT(kind, k)])]

PathKinds == {"straight", "uneven", "stationary", "creep", "turn"}

\* paths that end before the segment loop does anything: too short (4 samples)
\* in x, in y or in both, and exactly 5 samples
ShortModels ==
  { Path("straight", 4, 4, 4), Path("straight", 4, 10, 10),
    Path("straight", 10, 4, 10), Path("straight", 5, 5, 5) }

\* paths of the longest length, and those together with paths of 10 samples
LongModels == { Path(kind, MaxSamples, MaxSamples, MaxSamples) : kind \in PathKinds }
SegmentModels == LongModels \cup { Path(kind, 10, 10, 10) : kind \in PathKinds }

\* a path whose y ends inside the second segment of x
RaggedModels == { Path("straight", 11, 6, 11) }

\* measured a_y, a_x, yaw_rate, u_measured and the steering angle sa
Measured(a_y, a_x, yaw_rate_, u_measured, sa) ==
  [a_y |-> a_y, a_x |-> a_x, yaw_rate |-> yaw_rate_, u_measured |-> u_measured, sa |-> sa]

Cruise == Measured(R(0), R(0), R(0), R(5), R(0))
CruiseSteering == Measured(R(0), R(0), R(0), R(5), Q(1, 10))
Standstill == Measured(R(0), R(1), R(0), R(0), R(0))
AtThreshold == Measured(R(0), R(-1), R(0), Q(1, 10), Q(1, 10))
Cornering == Measured(R(1), R(0), Q(1, 10), R(5), Q(1, 10))
Yawing == Measured(R(0), R(0), Q(1, 10), R(5), R(0))

MeasuredSet == {Cruise, CruiseSteering, Standstill, AtThreshold, Cornering}

\* the default time_horizon
DefaultHorizon == R(2)

\* the calls of calc_curvature_3dof: <<model, measured, time_horizon>>
Calls3dof ==
  (ShortModels \X {Cruise, Standstill} \X {DefaultHorizon}) \cup
  (SegmentModels \X MeasuredSet \X {DefaultHorizon}) \cup
  (RaggedModels \X {Cruise} \X {DefaultHorizon}) \cup
  (LongModels \X {CruiseSteering} \X {R(1), R(0)})

\* the few of them made between recalibrations
Calls3dofFew ==
  { <<Path("straight", 4, 4, 4), Cruise, DefaultHorizon>>,
    <<Path("turn", 10, 10, 10), Yawing, DefaultHorizon>>,
    <<Path("straight", MaxSamples, MaxSamples, MaxSamples), CruiseSteering, R(1)>> }

-----
(* The state machine: one action per method call.                          *)

NoTrace == [path |-> <<>>, builder_u |-> <<>>, segments |-> <<>>,
            combined |-> <<>>, relevant |-> <<>>]

Idle == [pc |-> "idle"]

Params(self) == <<self.cF, self.cR, self.sR>>

Init ==
  /\ CP \in CarParamsSet
  /\ VM = construct(CP)
  /\ last = <<R(1), CP.steerRatio>>
  /\ op = "__init__"
  /\ args = <<>>
  /\ ret = <<>>
  /\ locals = NoTrace
  /\ upd = Idle
  /\ qry = Idle
  /\ committed = {Params(construct(CP))}

Frame == UNCHANGED <<CP, VM, last, upd, qry, committed>>

UpdateParams(stiffness_factor, steer_ratio) ==
  /\ VM' = update_params(VM, stiffness_factor, steer_ratio)
  /\ last' = <<stiffness_factor, steer_ratio>>
  /\ op' = "update_params"
  /\ args' = <<stiffness_factor, steer_ratio>>
  /\ ret' = <<>>
  /\ locals' = NoTrace
  /\ committed' = {Params(VM')}
  /\ UNCHANGED <<CP, upd, qry>>

SteadyStateSol(sa, u, roll) ==
  Let(steady_state_sol(VM, sa, u, roll), LAMBDA r :
    /\ op' = "steady_state_sol"
    /\ args' = <<sa, u, roll>>
    /\ ret' = r.ret
    /\ locals' = [NoTrace EXCEPT !.path = r.path, !.builder_u = r.builder_u]
    /\ Frame)

CalcCurvature(sa, u, roll) ==
  /\ op' = "calc_curvature"
  /\ args' = <<sa, u, roll>>
  /\ ret' = <<calc_curvature(VM, sa, u, roll)>>
  /\ locals' = NoTrace
  /\ Frame

CurvatureFactor(u) ==
  /\ op' = "curvature_factor"
  /\ args' = <<u>>
  /\ ret' = <<curvature_factor(VM, u)>>
  /\ locals' = NoTrace
  /\ Frame

\* get_steer_from_curvature keeping the steer ratio it used in the store
GetSteerFromCurvatureStoring(curv, u, roll) ==
  /\ op' = "get_steer_from_curvature"
  /\ args' = <<curv, u, roll>>
  /\ ret' = <<get_steer_from_curvature(VM, curv, u, roll)>>
  /\ locals' = NoTrace
  /\ VM' = [VM EXCEPT !.sR = ret'[1]]
  /\ UNCHANGED <<CP, last, upd, qry, committed>>

GetSteerFromCurvature(curv, u, roll) ==
  /\ op' = "get_steer_from_curvature"
  /\ args' = <<curv, u, roll>>
  /\ ret' = <<get_steer_from_curvature(VM, curv, u, roll)>>
  /\ locals' = NoTrace
  /\ Frame

RollCompensation(roll, u) ==
  /\ op' = "roll_compensation"
  /\ args' = <<roll, u>>
  /\ ret' = <<roll_compensation(VM, roll, u)>>
  /\ locals' = NoTrace
  /\ Frame

GetSteerFromYawRate(yr, u, roll) ==
  /\ op' = "get_steer_from_yaw_rate"
  /\ args' = <<yr, u, roll>>
  /\ ret' = <<get_steer_from_yaw_rate(VM, yr, u, roll)>>
  /\ locals' = NoTrace
  /\ Frame

YawRate(sa, u, roll) ==
  /\ op' = "yaw_rate"
  /\ args' = <<sa, u, roll>>
  /\ ret' = <<yaw_rate(VM, sa, u, roll)>>
  /\ locals' = NoTrace
  /\ Frame

CalcCurvature3dof(model, meas, time_horizon) ==
  Let(calc_curvature_3dof(VM, model, meas.a_y, meas.a_x, meas.yaw_rate,
                          meas.u_measured, meas.sa, time_horizon),
      LAMBDA r :
    /\ op' = "calc_curvature_3dof"
    /\ args' = <<model, meas, time_horizon>>
    /\ ret' = <<r.ret>>
    /\ locals' = [NoTrace EXCEPT !.builder_u = r.builder_u, !.segments = r.segments,
                                 !.combined = r.combined, !.relevant = r.relevant]
    /\ Frame)

Next ==
  \/ \E f \in StiffnessFactorSet, s \in SteerRatioSet : UpdateParams(f, s)
  \/ \E sa \in SteerSet, u \in SteadySpeedSet, roll \in RollSet : SteadyStateSol(sa, u, roll)
  \/ \E sa \in SteerSet, u \in SpeedSet, roll \in RollSet : CalcCurvature(sa, u, roll)
  \/ \E u \in SpeedSet : CurvatureFactor(u)
  \/ \E curv \in CurvSet, u \in SpeedSet, roll \in RollSet : GetSteerFromCurvature(curv, u, roll)
  \/ \E roll \in RollSet, u \in SpeedSet : RollCompensation(roll, u)
  \/ \E yr \in YawRateSet, u \in SpeedSet, roll \in RollSet : GetSteerFromYawRate(yr, u, roll)
  \/ \E sa \in SteerSet, u \in SpeedSet, roll \in RollSet : YawRate(sa, u, roll)
  \/ \E c \in Calls3dofFew : CalcCurvature3dof(c[1], c[2], c[3])

Spec == Init /\ [][Next]_vars

\* the estimator alone, on every path and measurement, for each car
Next3dof == \E c \in Calls3dof : CalcCurvature3dof(c[1], c[2], c[3])

\* the cars the estimator is run for
EstimatorCars == {cp \in CarParamsSet : cp.wheelbase # R(1000)}

Init3dof == Init /\ CP \in EstimatorCars

Spec3dof == Init3dof /\ [][Next3dof]_vars

---------------------------------------------------------------------------------------------------------------------------------------------------
(* update_params and calc_curvature in two threads.  The interpreter may   *)
(* switch threads between any two attribute accesses, so each store of     *)
(* update_params and each load of cF, cR or sR by the query is a step.     *)

\* the fields calc_curvature loads, in order: cF, cR, cF, cR in the slip
\* factor of curvature_factor, then sR, then the slip factor of
\* roll_compensation
QueryReads == <<"cF", "cR", "cF", "cR", "sR", "cF", "cR", "cF", "cR">>

\* calc_curvature from the values its loads returned
calc_curvature_of(self, reads, sa, u, roll) ==
  LET sf1 == slip_factor_of(self, reads[1], reads[2], reads[3], reads[4])
      sf2 == slip_factor_of(self, reads[6], reads[7], reads[8], reads[9])
  IN  Add(PyDiv(Mul(curvature_factor_of(self, sf1, u), sa), reads[5]),
          roll_compensation_of(sf2, roll, u))

\* the parameter set the last completed update_params stored
LastStored == Params(update_params(VM, last[1], last[2]))

BeginUpdate(stiffness_factor, steer_ratio) ==
  /\ upd.pc = "idle"
  /\ upd' = [pc |-> "cF", stiffness_factor |-> stiffness_factor, steer_ratio |-> steer_ratio]
  /\ UNCHANGED <<CP, VM, last, op, args, ret, locals, qry, committed>>

StoreCF ==
  /\ upd.pc = "cF"
  /\ VM' = [VM EXCEPT !.cF = Mul(upd.stiffness_factor, VM.cF_orig)]
  /\ upd' = [upd EXCEPT !.pc = "cR"]
  /\ UNCHANGED <<CP, last, op, args, ret, locals, qry, committed>>

StoreCR ==
  /\ upd.pc = "cR"
  /\ VM' = [VM EXCEPT !.cR = Mul(upd.stiffness_factor, VM.cR_orig)]
  /\ upd' = [upd EXCEPT !.pc = "sR"]
  /\ UNCHANGED <<CP, last, op, args, ret, locals, qry, committed>>

StoreSR ==
  /\ upd.pc = "sR"
  /\ VM' = [VM EXCEPT !.sR = upd.steer_ratio]
  /\ upd' = Idle
  /\ last' = <<upd.stiffness_factor, upd.steer_ratio>>
  /\ committed' = IF qry.pc = "reading" THEN committed \cup {Params(VM')} ELSE committed
  /\ UNCHANGED <<CP, op, args, ret, locals, qry>>

BeginQuery(sa, u, roll) ==
  /\ qry.pc \in {"idle", "done"}
  /\ qry' = [pc |-> "reading", sa |-> sa, u |-> u, roll |-> roll, reads |-> <<>>]
  /\ committed' = {LastStored}
  /\ op' = "calc_curvature"
  /\ args' = <<sa, u, roll>>
  /\ ret' = <<>>
  /\ locals' = NoTrace
  /\ UNCHANGED <<CP, VM, last, upd>>

LoadField ==
  /\ qry.pc = "reading"
  /\ Len(qry.reads) < Len(QueryReads)
  /\ qry' = [qry EXCEPT !.reads = Append(@, VM[QueryReads[Len(@) + 1]])]
  /\ UNCHANGED <<CP, VM, last, op, args, ret, locals, upd, committed>>

ReturnQuery ==
  /\ qry.pc = "reading"
  /\ Len(qry.reads) = Len(QueryReads)
  /\ qry' = [qry EXCEPT !.pc = "done"]
  /\ ret' = <<calc_curvature_of(VM, qry.reads, qry.sa, qry.u, qry.roll)>>
  /\ UNCHANGED <<CP, VM, last, op, args, locals, upd, committed>>

\* the cars and the calls of the two threads
ConcurrentCars == {cp \in CarParamsSet : cp.tireStiffnessFront = R(2) /\ cp.wheelbase = R(2)}
ConcurrentUpdates == {<<Q(1, 2), R(3)>>, <<R(2), R(3)>>}
ConcurrentQueries == {<<Q(1, 10), R(3), Q(1, 20)>>}

InitConc == Init /\ CP \in ConcurrentCars

NextConc ==
  \/ \E c \in ConcurrentUpdates : BeginUpdate(c[1], c[2])
  \/ StoreCF
  \/ StoreCR
  \/ StoreSR
  \/ \E c \in ConcurrentQueries : BeginQuery(c[1], c[2], c[3])
  \/ LoadField
  \/ ReturnQuery

SpecConc == InitConc /\ [][NextConc]_vars

\* C4 as claimed: the values a finished query loaded all come from one
\* parameter set (cF, cR, sR) that the store held between two update_params
\* calls while the query ran: the set before an update or the set after it.
C4_NoTornRead ==
  qry.pc = "done" =>
    \E P \in committed :
      \A k \in 1..Len(QueryReads) :
        qry.reads[k] = (CASE QueryReads[k] = "cF" -> P[1]
                          [] QueryReads[k] = "cR" -> P[2]
                          [] QueryReads[k] = "sR" -> P[3])

-----
(* Properties of the parameter store and of the scalar API, under Spec.    *)

\* C1: the store always holds cF = f * cF_orig, cR = f * cR_orig and sR = s
\* for the arguments (f, s) of the most recent update_params call (1 and the
\* default steer ratio after construction), without compounding, and the
\* other fields keep the values given at construction.
C1_StoreReflectsLastCall ==
  /\ VM.cF = Mul(last[1], VM.cF_orig)
  /\ VM.cR = Mul(last[1], VM.cR_orig)
  /\ VM.sR = last[2]
  /\ VM.cF_orig = CP.tireStiffnessFront
  /\ VM.cR_orig = CP.tireStiffnessRear
  /\ VM.m = CP.mass
  /\ VM.j = CP.rotationalInertia
  /\ VM.l = CP.wheelbase
  /\ VM.aF = CP.centerToFront
  /\ VM.aR = Sub(CP.wheelbase, CP.centerToFront)
  /\ VM.chi = CP.steerRatioRear
  /\ (op = "__init__" => last = <<R(1), CP.steerRatio>>)
  /\ (op = "update_params" => last = args)

\* a recalibration by 2 of a car whose stiffnesses differ, ending with cF = 4
C1_Witness ==
  /\ op = "update_params"
  /\ args = <<R(2), R(3)>>
  /\ VM.cF_orig = R(2) /\ VM.cR_orig = R(1)
  /\ VM.cF = R(4) /\ VM.cR = R(2) /\ VM.sR = R(3)

\* C5: steady_state_sol goes through dyn_ss_sol and the 2-state builder exactly
\* when u > 0.1 and through kin_ss_sol otherwise (u = 0.1 included), so the
\* builder is never given a speed at or below 0.1.
C5_RegimeSelection ==
  op = "steady_state_sol" =>
    LET sa == args[1]
        u == args[2]
        roll == args[3]
    IN  /\ Gt(u, Q(1, 10)) =>
             /\ locals.path = <<"dyn_ss_sol", "create_dyn_state_matrices">>
             /\ locals.builder_u = <<u>>
             /\ ret = dyn_ss_sol(sa, u, roll, VM)
        /\ ~Gt(u, Q(1, 10)) =>
             /\ locals.path = <<"kin_ss_sol">>
             /\ locals.builder_u = <<>>
             /\ ret = kin_ss_sol(sa, u, VM)
        /\ \A k \in DOMAIN locals.builder_u :
             Gt(locals.builder_u[k], Q(1, 10)) /\ ~IsZero(locals.builder_u[k])

\* a call at exactly 0.1 that took the kinematic formula
C5_Witness ==
  /\ op = "steady_state_sol"
  /\ args[2] = Q(1, 10)
  /\ args[1] # R(0)
  /\ locals.path = <<"kin_ss_sol">>
  /\ ret # <<R(0), R(0)>>

\* C6: with curvature_factor(u) finite and nonzero and sR nonzero, the steering
\* angle returned by get_steer_from_curvature(curv, u, roll) gives back curv
\* through calc_curvature under the same stored parameters.
C6_RoundTrip ==
  op = "get_steer_from_curvature" =>
    LET curv == args[1]
        u == args[2]
        roll == args[3]
        cf == curvature_factor(VM, u)
    IN  (IsFinite(cf) /\ ~IsZero(cf) /\ ~IsZero(VM.sR)) =>
          /\ IsFinite(ret[1])
          /\ calc_curvature(VM, ret[1], u, roll) = curv

\* a round trip with a nonzero roll compensation and a nonzero curvature
C6_Witness ==
  /\ op = "get_steer_from_curvature"
  /\ args[1] # R(0)
  /\ IsFinite(ret[1])
  /\ ~IsZero(VM.sR)
  /\ IsFinite(roll_compensation(VM, args[3], args[2]))
  /\ ~IsZero(roll_compensation(VM, args[3], args[2]))

\* C9: a step that is not update_params leaves every field of the model as it
\* was, and a query repeated with the same arguments on the same parameters
\* returns what it returned before.
C9_QueriesArePure ==
  [][ /\ (op' # "update_params" => VM' = VM /\ CP' = CP /\ last' = last)
      /\ ((op' = op /\ args' = args /\ VM' = VM /\ op' # "update_params")
            => ret' = ret /\ locals' = locals) ]_vars

\* an estimator call made after a recalibration, the store still holding it
C9_Witness ==
  /\ op = "calc_curvature_3dof"
  /\ last = <<Q(1, 2), R(3)>>
  /\ VM = update_params(construct(CP), Q(1, 2), R(3))
  /\ locals.segments # <<>>

----------------------------------------------------------------------------
(* Properties of calc_curvature_3dof, under Spec3dof.                      *)

Called3dof == op = "calc_curvature_3dof"
ArgModel == args[1]
ArgMeasured == args[2]
ArgHorizon == args[3]

\* C2 as claimed: a call on n >= 5 samples (that does not raise) visits exactly
\* floor(n / 5) segments, starting at 0, 5, 10, ...
C2_FloorSegments ==
  (Called3dof /\ ~too_short(ArgModel.x, ArgModel.y) /\ ret # <<Raised>>) =>
    LET n == Len(ArgModel.x)
    IN  locals.segments = Eval([k \in 1..(n \div SEGMENT_LENGTH_3DOF) |->
                                  SEGMENT_LENGTH_3DOF * (k - 1)])

\* the running total of the time-window loop before position k (1-based): the
\* sum of times[j+1] - times[j] over the positions before it
PrefixTime(times, k) ==
  SumSeq(Eval([j \in 1..(k - 1) |-> Sub(times[j + 1], times[j])]))

\* C3: the collected values are a prefix of the corrected values; the value at
\* position k is collected exactly when the time deltas summed over the
\* positions before k are strictly below time_horizon; the result is the mean
\* of the collected values, 0.0 when there is none.
C3_TimeWindow ==
  (Called3dof /\ ret # <<Raised>>) =>
    /\ Len(locals.relevant) <= Len(locals.combined)
    /\ \A k \in 1..Len(locals.relevant) : locals.relevant[k] = locals.combined[k]
    /\ \A k \in 1..Len(locals.combined) :
         (k <= Len(locals.relevant)) <=> Lt(PrefixTime(ArgModel.t, k), ArgHorizon)
    /\ ret = IF locals.relevant = <<>> THEN <<R(0)>>
             ELSE <<Div(SumSeq(locals.relevant), R(Len(locals.relevant)))>>

\* two corrected values, the second left out because the running total had
\* reached the horizon
C3_Witness ==
  /\ Called3dof
  /\ Len(locals.combined) = 2
  /\ Len(locals.relevant) = 1
  /\ PrefixTime(ArgModel.t, 2) = ArgHorizon
  /\ ret = <<locals.combined[1]>>
  /\ locals.combined[2] # locals.combined[1]

\* C7: with fewer than 5 samples in x or in y the call returns 0.0, visits no
\* segment, calls no builder and does not raise.
C7_ShortTrajectory ==
  (Called3dof /\ (Len(ArgModel.x) < 5 \/ Len(ArgModel.y) < 5)) =>
    /\ ret = <<R(0)>>
    /\ locals.segments = <<>>
    /\ locals.builder_u = <<>>
    /\ locals.combined = <<>>

\* x is long enough and y is not
C7_Witness ==
  /\ Called3dof
  /\ Len(ArgModel.x) >= 10
  /\ Len(ArgModel.y) = 4
  /\ ret = <<R(0)>>

\* x increasing linearly in time, y constant, a uniform time step, at least 10
\* samples
IsStraightUniform(model) ==
  /\ Len(model.x) >= 10
  /\ Len(model.y) = Len(model.x)
  /\ Len(model.t) = Len(model.x)
  /\ \A k \in 1..Len(model.y) : model.y[k] = model.y[1]
  /\ Gt(Sub(model.t[2], model.t[1]), R(0))
  /\ Gt(Sub(model.x[2], model.x[1]), R(0))
  /\ \A k \in 1..(Len(model.t) - 1) :
       /\ Sub(model.t[k + 1], model.t[k]) = Sub(model.t[2], model.t[1])
       /\ Sub(model.x[k + 1], model.x[k]) = Sub(model.x[2], model.x[1])

StraightCall ==
  /\ Called3dof
  /\ IsStraightUniform(ArgModel)
  /\ ArgMeasured.a_y = R(0)
  /\ ArgMeasured.yaw_rate = R(0)

\* within 0.001 of zero
NearZero(v) == IsFinite(v) /\ Lt(Abs(v), Q(1, 1000))

\* C8 as claimed: on a straight path with a_y = 0 and yaw_rate = 0 the result
\* is near 0.0 whatever sa, a_x and u_measured are.
C8_StraightNearZero == StraightCall => NearZero(ret[1])

\* C8 amended: on a straight path with a_y = 0, yaw_rate = 0 and a steering
\* angle sa = 0 the corrected curvature of every segment is 0 and the result is
\* 0.0, whatever a_x and u_measured are.
C8_StraightZeroSteer ==
  (StraightCall /\ ArgMeasured.sa = R(0)) =>
    /\ ret = <<R(0)>>
    /\ \A k \in DOMAIN locals.combined : locals.combined[k] = R(0)

\* a straight path driven from standstill measurements with a_x = 1
C8_Witness ==
  /\ StraightCall
  /\ ArgMeasured.sa = R(0)
  /\ ArgMeasured.a_x = R(1)
  /\ ArgMeasured.u_measured = R(0)
  /\ Len(locals.combined) = 2
  /\ Len(locals.relevant) = 2
  /\ ret = <<R(0)>>

\* C10 as claimed: every speed calc_curvature_3dof passes to the 3-state
\* builder is above 0.1.
C10_BuilderSpeedAboveThreshold ==
  Called3dof =>
    \A k \in DOMAIN locals.builder_u : Gt(locals.builder_u[k], Q(1, 10))

====
